---- MODULE Spec2Model ----
(***************************************************************************)
(* Model of the payments engine: the driver loop of main.rs feeding        *)
(* decoded TransactionInput values into User::process_tx_input (core.rs),  *)
(* and the derived balances available(), held() and total().               *)
(***************************************************************************)
EXTENDS Integers, Sequences, FiniteSets, TLC

\* ---------------------------------------------------------------- bounds
\* the driver: clients, transaction ids and records of the input
MaxClient == 2
MaxTx == 1
MaxRecords == 2
\* one account fed many records over few ids
MaxAccountTx == 2
MaxDepth == 4
\* one account fed few records over many ids
MaxWideTx == 3
MaxWideRecords == 3
\* the small amounts, in ticks
MaxAmount == 1
\* one account fed deposits and withdrawals only
MaxMoneyRecords == 3
\* the decoder: records of the input and ids they name
MaxDecodeRecords == 2
MaxDecodeTx == 1
\* two accounts fed interleaved records
MaxPairTx == 3
MaxPairRecords == 3

\* ---------------------------------------------------- program constants
\* largest value of the i32 that stores an amount in ticks
I32_MAX == 2147483647
I32_MIN == (0 - I32_MAX) - 1

Clients == 1..MaxClient
TxIds == 1..MaxTx
AccountTxIds == 1..MaxAccountTx
WideTxIds == 1..MaxWideTx
\* tick amounts the decoder can deliver: a negative one, small ones and the
\* value the saturating cast `as i32` yields for a huge decimal
Amounts == {0 - 1} \cup (0..MaxAmount) \cup {I32_MAX}

VARIABLES mock_db, pc, nrecords, last, overflow_checks, output

vars == <<mock_db, pc, nrecords, last, overflow_checks, output>>

\* ------------------------------------------------------------ data types
TransactionStatus == {"Normal", "Disputed", "Solved(false)", "Solved(true)"}

TransactionSide == {"Deposit", "Withdrawal"}

\* the dispute family carries no amount; the field is 0 and never read
TransactionInputs(ids, clients) ==
    [kind : {"Deposit", "Withdrawal"}, id : ids, client_id : clients,
     amount : Amounts]
    \cup
    [kind : {"Dispute", "Resolve", "Chargeback"}, id : ids,
     client_id : clients, amount : {0}]

\* the records the driver is fed
TransactionInput == TransactionInputs(TxIds, Clients)

\* the records one account is fed: all carry its client id
AccountInput == TransactionInputs(AccountTxIds, {1})

WideInput == TransactionInputs(WideTxIds, {1})

NoTx == [kind |-> "None", id |-> 0, client_id |-> 0, amount |-> 0]

NewTransaction(id, client_id, side, amount) ==
    [id |-> id, client_id |-> client_id, side |-> side,
     status |-> "Normal", amount |-> amount]

\* the empty HashMap
EmptyMap == [k \in {} |-> 0]

NewUser_Locked(id) == [id |-> id, locked |-> TRUE, transactions |-> EmptyMap]

NewUser(id) == [id |-> id, locked |-> FALSE, transactions |-> EmptyMap]

\* ------------------------------------------------------ i32 arithmetic
AddOverflows(a, b) ==
    \/ b > 0 /\ a > I32_MAX - b
    \/ b < 0 /\ a < I32_MIN - b

\* a + b reduced to the i32 range (two's complement wrap-around)
WrappingAdd(a, b) ==
    IF b > 0 /\ a > I32_MAX - b
    THEN ((a - I32_MAX) - 1) + ((b - I32_MAX) - 1)
    ELSE IF b < 0 /\ a < I32_MIN - b
         THEN ((a + I32_MAX) + 1) + ((b + I32_MAX) + 1)
         ELSE a + b

SubOverflows(a, b) ==
    \/ b < 0 /\ a > I32_MAX + b
    \/ b > 0 /\ a < I32_MIN + b

WrappingSub(a, b) ==
    IF b < 0 /\ a > I32_MAX + b
    THEN ((a - I32_MAX) - 1) - ((b + I32_MAX) + 1)
    ELSE IF b > 0 /\ a < I32_MIN + b
         THEN ((a + I32_MAX) + 1) - ((b - I32_MAX) - 1)
         ELSE a - b

Max(a, b) == IF a >= b THEN a ELSE b

\* ------------------------------------------------------ f32 arithmetic
\* a finite f32 is [neg, m, e]: the value (-1)^neg * m * 2^e with
\* 2^23 <= m < 2^24, or m = 0 for zero; every operation rounds its exact
\* result to the nearest such value, ties to the even mantissa
Pow2(n) == 2 ^ n

Pow10(n) == 10 ^ n

F32Zero(neg) == [neg |-> neg, m |-> 0, e |-> 0]

\* the mantissa q of the exact result cut to 24 bits, rounded by what was
\* cut off: more than half a unit (above), or exactly half (tie)
F32Round(neg, q, above, tie, e) ==
    LET m == IF above \/ (tie /\ q % 2 = 1) THEN q + 1 ELSE q
    IN IF m = Pow2(24) THEN [neg |-> neg, m |-> Pow2(23), e |-> e + 1]
       ELSE [neg |-> neg, m |-> m, e |-> e]

\* binary long division: the quotient q (remainder r, divisor p) is given
\* further bits until it has 24
RECURSIVE F32Extend(_, _, _, _)
F32Extend(q, r, p, e) ==
    IF q >= Pow2(23) THEN [q |-> q, r |-> r, e |-> e]
    ELSE IF 2 * r >= p
         THEN F32Extend(2 * q + 1, 2 * r - p, p, e - 1)
         ELSE F32Extend(2 * q, 2 * r, p, e - 1)

\* the least j with q \div 2^j < 2^24
RECURSIVE F32Excess(_)
F32Excess(q) == IF q < Pow2(24) THEN 0 ELSE 1 + F32Excess(q \div 2)

\* the f32 nearest to (d / p) * 2^e0, for integers 0 <= d < 2^31, p >= 1
F32FromRatio(neg, d, p, e0) ==
    IF d = 0 THEN F32Zero(neg)
    ELSE LET q0 == d \div p
             r0 == d % p
         IN IF q0 >= Pow2(24)
            THEN LET j == F32Excess(q0)
                     rem == q0 % Pow2(j)
                     half == Pow2(j - 1)
                 IN F32Round(neg, q0 \div Pow2(j),
                             rem > half \/ (rem = half /\ r0 > 0),
                             rem = half /\ r0 = 0, e0 + j)
            ELSE LET x == F32Extend(q0, r0, p, e0)
                 IN F32Round(neg, x.q, 2 * x.r > p, 2 * x.r = p, x.e)

\* `n as f32` for an i32 n
F32FromI32(n) ==
    IF n = I32_MIN THEN [neg |-> TRUE, m |-> Pow2(23), e |-> 8]
    ELSE IF n < 0 THEN F32FromRatio(TRUE, 0 - n, 1, 0)
         ELSE F32FromRatio(FALSE, n, 1, 0)

\* a * b: the 48-bit product of the mantissas, by 12-bit halves, is
\* hi * 2^24 + lo
F32Mul(a, b) ==
    IF a.m = 0 \/ b.m = 0 THEN F32Zero(a.neg # b.neg)
    ELSE LET ah == a.m \div 4096
             al == a.m % 4096
             bh == b.m \div 4096
             bl == b.m % 4096
             cross == ah * bl + al * bh
             lo0 == (cross % 4096) * 4096 + al * bl
             lo == lo0 % Pow2(24)
             hi == ah * bh + cross \div 4096 + lo0 \div Pow2(24)
             neg == a.neg # b.neg
         IN IF hi >= Pow2(23)
            THEN F32Round(neg, hi, lo > Pow2(23), lo = Pow2(23),
                          a.e + b.e + 24)
            ELSE F32Round(neg, 2 * hi + lo \div Pow2(23),
                          lo % Pow2(23) > Pow2(22),
                          lo % Pow2(23) = Pow2(22), a.e + b.e + 23)

\* a / b, b not zero
F32Div(a, b) == F32FromRatio(a.neg # b.neg, a.m, b.m, a.e - b.e)

\* f32::trunc: the integer part, toward zero
F32Trunc(a) ==
    IF a.e >= 0 THEN a
    ELSE IF 0 - a.e >= 24 THEN F32Zero(a.neg)
         ELSE F32FromRatio(a.neg, a.m \div Pow2(0 - a.e), 1, 0)

\* f32::round (halves away from zero), then `as i32`, which saturates at
\* the ends of the i32 range
F32RoundAsI32(a) ==
    LET k == 0 - a.e
        magnitude ==
            IF a.e >= 0 THEN a.m * Pow2(a.e)
            ELSE IF k > 24 THEN 0
                 ELSE a.m \div Pow2(k)
                        + (IF a.m % Pow2(k) >= Pow2(k - 1) THEN 1 ELSE 0)
    IN IF a.m = 0 THEN 0
       ELSE IF a.e >= 8 THEN IF a.neg THEN I32_MIN ELSE I32_MAX
            ELSE IF a.neg THEN 0 - magnitude ELSE magnitude

\* the decimals of (h * 2^b + l) / 2^k, one digit per step: `n` digits
\* are appended to q, then the remainder left is returned with it
RECURSIVE F32Digits(_, _, _, _, _, _)
F32Digits(h, l, b, k, n, q) ==
    IF n = 0 THEN [h |-> h, l |-> l, q |-> q]
    ELSE LET l10 == l * 10
             h10 == h * 10 + l10 \div Pow2(b)
         IN F32Digits(h10 % Pow2(k - b), l10 % Pow2(b), b, k, n - 1,
                      q * 10 + h10 \div Pow2(k - b))

\* format!("{:.4}") of an f32 below 2^18 in magnitude, read back as a
\* signed count of ten-thousandths: the exact decimal expansion rounded to
\* 4 decimals, ties to even
F32Fixed4(a) ==
    IF a.m = 0 THEN 0
    ELSE LET k == 0 - a.e
             b == IF k < 12 THEN k ELSE 12
             h0 == a.m \div Pow2(b)
             int == h0 \div Pow2(k - b)
             d == F32Digits(h0 % Pow2(k - b), a.m % Pow2(b), b, k, 4, 0)
             l2 == d.l * 2
             h2 == d.h * 2 + l2 \div Pow2(b)
             bit == h2 \div Pow2(k - b)
             rest == h2 % Pow2(k - b) # 0 \/ l2 % Pow2(b) # 0
             up == bit = 1 /\ (rest \/ d.q % 2 = 1)
             magnitude == int * 10000 + d.q + (IF up THEN 1 ELSE 0)
         IN IF a.neg THEN 0 - magnitude ELSE magnitude

\* the orders in which a HashMap with key set S can be iterated
RECURSIVE Orders(_)
Orders(S) ==
    IF S = {} THEN {<<>>}
    ELSE UNION {{<<k>> \o o : o \in Orders(S \ {k})} : k \in S}

\* contribution of one entry to the fold of available(): +1, -1 or 0
AvailableSign_KeepsDisputed(tx) ==
    IF tx.side = "Deposit"
        /\ tx.status \in {"Normal", "Disputed", "Solved(false)"}
    THEN 1
    ELSE IF tx.side = "Withdrawal" /\ tx.status \in {"Normal", "Solved(false)"}
         THEN 0 - 1
         ELSE 0

AvailableSign_DropsResolved(tx) ==
    IF tx.side = "Deposit" /\ tx.status = "Normal"
    THEN 1
    ELSE IF tx.side = "Withdrawal" /\ tx.status \in {"Normal", "Solved(false)"}
         THEN 0 - 1
         ELSE 0

AvailableSign(tx) ==
    IF tx.side = "Deposit" /\ tx.status \in {"Normal", "Solved(false)"}
    THEN 1
    ELSE IF tx.side = "Withdrawal" /\ tx.status \in {"Normal", "Solved(false)"}
         THEN 0 - 1
         ELSE 0

\* the fold of available() over the entries in iteration order `order`:
\* value is the wrapped accumulator, overflowed tells whether some step
\* left the i32 range
RECURSIVE FoldAvailable(_, _, _)
FoldAvailable(txs, order, acc) ==
    IF order = <<>> THEN acc
    ELSE LET tx == txs[Head(order)]
             s == AvailableSign(tx)
             next == IF s = 1
                     THEN [value |-> WrappingAdd(acc.value, tx.amount),
                           overflowed |-> acc.overflowed
                                \/ AddOverflows(acc.value, tx.amount)]
                     ELSE IF s = 0 - 1
                          THEN [value |-> WrappingSub(acc.value, tx.amount),
                                overflowed |-> acc.overflowed
                                    \/ SubOverflows(acc.value, tx.amount)]
                          ELSE acc
         IN FoldAvailable(txs, Tail(order), next)

\* available() without the floor at 0
AvailableIn_NoFloor(txs, order) ==
    LET r == FoldAvailable(txs, order, [value |-> 0, overflowed |-> FALSE])
    IN [value |-> r.value, overflowed |-> r.overflowed]

\* available(): the fold, then .max(0)
AvailableIn(txs, order) ==
    LET r == FoldAvailable(txs, order, [value |-> 0, overflowed |-> FALSE])
    IN [value |-> Max(r.value, 0), overflowed |-> r.overflowed]

RECURSIVE FoldHeld(_, _, _)
FoldHeld(txs, order, acc) ==
    IF order = <<>> THEN acc
    ELSE LET tx == txs[Head(order)]
             next == IF tx.side = "Deposit" /\ tx.status = "Disputed"
                     THEN [value |-> WrappingAdd(acc.value, tx.amount),
                           overflowed |-> acc.overflowed
                                \/ AddOverflows(acc.value, tx.amount)]
                     ELSE acc
         IN FoldHeld(txs, Tail(order), next)

HeldIn(txs, order) ==
    FoldHeld(txs, order, [value |-> 0, overflowed |-> FALSE])

\* total(): the sum of what available() and held() gave
TotalOf(a, h) ==
    [value |-> WrappingAdd(a.value, h.value),
     overflowed |-> a.overflowed \/ h.overflowed
                        \/ AddOverflows(a.value, h.value)]

TotalIn(txs, order) == TotalOf(AvailableIn(txs, order), HeldIn(txs, order))

\* the keys of S in ascending order
RECURSIVE Ascending(_)
Ascending(S) ==
    IF S = {} THEN <<>>
    ELSE LET m == CHOOSE x \in S : \A y \in S : x <= y
         IN <<m>> \o Ascending(S \ {m})

\* an iteration order of the map, fixed, for the calls that do not iterate
SomeOrder(txs) == Ascending(DOMAIN txs)

\* what a call that computed r gives back: its value, or, in a build whose
\* `checks` trap integer overflow, a panic when a sum left the i32 range
Returned(r, checks) ==
    IF checks /\ r.overflowed
    THEN [panicked |-> TRUE, value |-> 0]
    ELSE [panicked |-> FALSE, value |-> r.value]

\* User::available, User::held and User::total on `user`, when the entry
\* map is iterated in `order`
available(user, order, checks) ==
    Returned(AvailableIn(user.transactions, order), checks)

held(user, order, checks) ==
    Returned(HeldIn(user.transactions, order), checks)

total(user, order, checks) ==
    Returned(TotalIn(user.transactions, order), checks)

\* the fold of available() before the floor at 0 is applied
Unfloored(user, order, checks) ==
    Returned(FoldAvailable(user.transactions, order,
                           [value |-> 0, overflowed |-> FALSE]), checks)

\* -------------------------------------------------- User::process_tx_input
\* TransactionInput::id and TransactionInput::client_id
TxId(tx) == tx.id

ClientId_TxField(tx) == tx.id

ClientId(tx) == tx.client_id

\* the early return of a frozen account
IsFrozen_Never(user) == FALSE

IsFrozen(user) == user.locked

\* the patterns (Deposit, None) and (Withdrawal, None): a money-moving
\* record whose id is not in the map
InsertArm_AnyEntry(tx, found) == tx.kind \in {"Deposit", "Withdrawal"}

InsertArm(tx, found) == tx.kind \in {"Deposit", "Withdrawal"} /\ ~found

\* the funds check of a withdrawal
SufficientFunds_Always(avail, amount) == TRUE

SufficientFunds(avail, amount) == avail >= amount

\* the status a Dispute leaves on the entry it names
DisputeStatus_AnySide(found_tx) ==
    IF found_tx.status = "Normal" THEN "Disputed" ELSE found_tx.status

DisputeStatus(found_tx) ==
    IF found_tx.side = "Deposit" /\ found_tx.status = "Normal"
    THEN "Disputed"
    ELSE found_tx.status

\* the status a Resolve leaves on the entry it names
ResolveStatus_AnyStatus(found_tx) == "Solved(false)"

ResolveStatus_Advance(found_tx) ==
    IF found_tx.status = "Disputed" THEN "Solved(false)"
    ELSE IF found_tx.status = "Normal" THEN "Disputed"
         ELSE found_tx.status

ResolveStatus(found_tx) ==
    IF found_tx.status = "Disputed" THEN "Solved(false)"
    ELSE found_tx.status

\* whether a Chargeback takes effect on the entry it names
ChargebackApplies(found_tx) == found_tx.status = "Disputed"

\* what an effective Chargeback does to the account: the entry is charged
\* back and the account frozen
ChargebackEffect_NoLock(user, tx_id) ==
    [user EXCEPT !.transactions[tx_id].status = "Solved(true)"]

ChargebackEffect(user, tx_id) ==
    [user EXCEPT !.transactions[tx_id].status = "Solved(true)",
                 !.locked = TRUE]

\* one call of process_tx_input on `user`; `order` is the iteration order of
\* the entry map seen by available(), `checks` tells whether the build traps
\* integer overflow.  panicked = TRUE: the call did not return.
ProcessTxInput(user, tx, order, checks) ==
    LET txs == user.transactions
        tx_id == TxId(tx)
        found == tx_id \in DOMAIN txs
        same == [user |-> user, panicked |-> FALSE]
        setStatus(st) ==
            [user EXCEPT !.transactions = [txs EXCEPT ![tx_id].status = st]]
        insert(side) ==
            [user EXCEPT !.transactions =
                (tx.id :> NewTransaction(tx.id, tx.client_id, side, tx.amount))
                @@ txs]
    IN
    IF ClientId(tx) # user.id THEN [user |-> user, panicked |-> TRUE]
    ELSE IF IsFrozen(user) THEN same
    ELSE IF tx.kind = "Deposit" /\ InsertArm(tx, found)
         THEN [user |-> insert("Deposit"), panicked |-> FALSE]
    ELSE IF tx.kind = "Withdrawal" /\ InsertArm(tx, found)
         THEN LET a == AvailableIn(txs, order)
              IN IF checks /\ a.overflowed
                 THEN [user |-> user, panicked |-> TRUE]
                 ELSE IF SufficientFunds(a.value, tx.amount)
                      THEN [user |-> insert("Withdrawal"), panicked |-> FALSE]
                      ELSE same
    ELSE IF tx.kind = "Dispute" /\ found
         THEN [user |-> setStatus(DisputeStatus(txs[tx_id])),
               panicked |-> FALSE]
    ELSE IF tx.kind = "Resolve" /\ found
         THEN [user |-> setStatus(ResolveStatus(txs[tx_id])),
               panicked |-> FALSE]
    ELSE IF tx.kind = "Chargeback" /\ found
         THEN IF ChargebackApplies(txs[tx_id])
              THEN [user |-> ChargebackEffect(user, tx_id),
                    panicked |-> FALSE]
              ELSE same
    ELSE same

\* mock_db.entry(client_id).or_insert(User::new(client_id))
OrInsert(db, client_id) ==
    IF client_id \in DOMAIN db THEN db
    ELSE (client_id :> NewUser(client_id)) @@ db

\* ticks in one currency unit: TICK_SIZE is 10^-4
TicksPerUnit == 10000

\* TICK_SIZE, the f32 nearest to 10^-4
TICK_SIZE == F32FromRatio(FALSE, 1, TicksPerUnit, 0)

\* `ticks as f32 * TICK_SIZE` written with {:.4}, as the count of
\* ten-thousandths the text shows
CsvAmountOf(ticks) == F32Fixed4(F32Mul(F32FromI32(ticks), TICK_SIZE))

\* the sums bounded runs produce: a few small amounts, possibly next to an
\* end of the i32 range; CsvAmountOf on them, computed once
CommonTicks ==
    LET span == 0..(MaxAmount * (MaxDepth + MaxWideRecords))
    IN UNION {{n, 0 - n, I32_MAX - n, I32_MIN + n} : n \in span}

CsvAmountTable == [ticks \in CommonTicks |-> CsvAmountOf(ticks)]

CsvAmount(ticks) ==
    IF ticks \in CommonTicks THEN CsvAmountTable[ticks]
    ELSE CsvAmountOf(ticks)

\* User::to_csv_row as the amounts its text shows, or a panic
ToCsvRow(user, order, checks) ==
    LET a == AvailableIn(user.transactions, order)
        h == HeldIn(user.transactions, order)
        t == TotalIn(user.transactions, order)
    IN [panicked |-> checks /\ t.overflowed,
        row |-> [client |-> user.id, available |-> CsvAmount(a.value),
                 held |-> CsvAmount(h.value), total |-> CsvAmount(t.value),
                 locked |-> user.locked]]

\* ------------------------------------- TransactionInput::try_from_string_record
\* the amount column: a decimal text (sign, digits, number of digits after
\* the point), one of the texts f32 parsing treats specially, or no column
\* at all (a record of fewer than 4 fields)
DecimalTexts == [form : {"decimal"}, neg : BOOLEAN,
                 digits : {0, 7, 15, 300000}, scale : {0, 4, 5}]

AmountTexts ==
    DecimalTexts
    \cup [form : {"absent", "empty", "nan", "inf", "junk"}, neg : {FALSE},
          digits : {0}, scale : {0}]

\* the type column after trim and to_lowercase
TypeTexts ==
    {"deposit", "withdrawal", "dispute", "resolve", "chargeback", "bogus"}

\* an id column is a number text; a negative one stands for a text that
\* parse::<u16> and parse::<u32> reject
StringRecords ==
    [type : TypeTexts, client : {0 - 1, 1}, tx : (0 - 1)..MaxDecodeTx,
     amount : AmountTexts]

\* val.parse::<f32>() of a decimal text: the f32 nearest to its value
ParseF32(text) ==
    F32FromRatio(text.neg, text.digits, Pow10(text.scale), 0)

\* trunc_decimals(value, decimals), in f32 throughout
TruncDecimals(value, decimals) ==
    LET factor == F32FromI32(Pow10(decimals))
    IN F32Div(F32Trunc(F32Mul(value, factor)), factor)

\* result is "Ok" with the decoded record, "Err" or "Panic"
Decoded(kind, tx) == [result |-> kind, tx |-> tx]

TryFromStringRecord(value) ==
    LET is_non_numeric_tx == value.amount.form = "empty"
        money == value.type \in {"deposit", "withdrawal"}
        kind == CASE value.type = "deposit" -> "Deposit"
                  [] value.type = "withdrawal" -> "Withdrawal"
                  [] value.type = "dispute" -> "Dispute"
                  [] value.type = "resolve" -> "Resolve"
                  [] value.type = "chargeback" -> "Chargeback"
                  [] OTHER -> "None"
        input(amount) == [kind |-> kind, id |-> value.tx,
                          client_id |-> value.client, amount |-> amount]
    IN IF value.amount.form = "absent" THEN Decoded("Panic", NoTx)
       ELSE IF value.type = "bogus" THEN Decoded("Panic", NoTx)
       ELSE IF is_non_numeric_tx /\ money THEN Decoded("Err", NoTx)
       ELSE IF value.client < 0 \/ value.tx < 0 THEN Decoded("Err", NoTx)
       ELSE IF ~money THEN Decoded("Ok", input(0))
       ELSE IF value.amount.form = "junk" THEN Decoded("Err", NoTx)
       ELSE IF value.amount.form \in {"nan", "inf"} THEN Decoded("Err", NoTx)
       ELSE Decoded("Ok",
                    input(F32RoundAsI32(
                            F32Div(TruncDecimals(ParseF32(value.amount), 4),
                                   TICK_SIZE))))

\* ------------------------------------------------------------- the driver
Init ==
    /\ mock_db = EmptyMap
    /\ pc = "loop"
    /\ nrecords = 0
    /\ last = NoTx
    /\ overflow_checks \in BOOLEAN
    /\ output = <<>>

\* the results process_tx_input can produce on `user`: one per iteration
\* order of the entry map for a Withdrawal, the only record that makes it
\* iterate the map
ProcessOutcomes(user, tx, checks) ==
    IF tx.kind = "Withdrawal"
    THEN {ProcessTxInput(user, tx, order, checks) :
            order \in Orders(DOMAIN user.transactions)}
    ELSE {ProcessTxInput(user, tx, SomeOrder(user.transactions), checks)}

\* what one iteration of the loop of main can make of the registry `db` on a
\* record that decodes to tx: the account is fetched or created, then
\* process_tx_input runs on it
ApplyRecord(db, tx, checks) ==
    LET client_id == ClientId(tx)
        db1 == OrInsert(db, client_id)
    IN {[db |-> [db1 EXCEPT ![client_id] = r.user], panicked |-> r.panicked] :
            r \in ProcessOutcomes(db1[client_id], tx, checks)}

\* one iteration of the loop of main on a record that decodes to tx, in an
\* input of at most `limit` records
ProcessRecord(tx, limit) ==
    /\ pc = "loop"
    /\ nrecords < limit
    /\ \E o \in ApplyRecord(mock_db, tx, overflow_checks) :
            /\ mock_db' = o.db
            /\ pc' = IF o.panicked THEN "panicked" ELSE "loop"
    /\ nrecords' = nrecords + 1
    /\ last' = tx
    /\ UNCHANGED <<overflow_checks, output>>

\* one iteration of the loop on a record the reader or the decoder rejects:
\* main returns the error
RecordError ==
    /\ pc = "loop"
    /\ nrecords < MaxRecords
    /\ pc' = "error"
    /\ UNCHANGED <<mock_db, nrecords, last, overflow_checks, output>>

\* one iteration of the loop on a record that makes the decoder panic: a
\* type it does not know, or, for the first record of a file without header
\* line, fewer than 4 fields
RecordPanic ==
    /\ pc = "loop"
    /\ nrecords < MaxRecords
    /\ pc' = "panicked"
    /\ UNCHANGED <<mock_db, nrecords, last, overflow_checks, output>>

\* the rows to_csv_row can produce for `user`, one per iteration order
RowOutcomes(user, checks) ==
    {ToCsvRow(user, order, checks) :
        order \in Orders(DOMAIN user.transactions)}

\* rows written for the clients of `corder`, in that order, up to the first
\* row whose computation panics
RECURSIVE WriteRows(_, _)
WriteRows(corder, rows) ==
    IF corder = <<>> THEN <<>>
    ELSE IF rows[Head(corder)].panicked THEN <<>>
         ELSE <<rows[Head(corder)].row>> \o WriteRows(Tail(corder), rows)

\* what the output loop can leave behind: the rows written and whether it
\* panicked, over the iteration orders of mock_db and of the entry maps
WriteOutcomes(db, checks) ==
    LET all == UNION {RowOutcomes(db[c], checks) : c \in DOMAIN db}
        choices == {rows \in [DOMAIN db -> all] :
                        \A c \in DOMAIN db :
                            rows[c] \in RowOutcomes(db[c], checks)}
    IN {[rows |-> WriteRows(corder, rows),
         panicked |-> \E i \in 1..Len(corder) : rows[corder[i]].panicked
                        /\ \A j \in 1..(i - 1) : ~rows[corder[j]].panicked] :
            corder \in Orders(DOMAIN db), rows \in choices}

\* end of input: the header and one row per account of mock_db.values()
WriteOutput ==
    /\ pc = "loop"
    /\ \E w \in WriteOutcomes(mock_db, overflow_checks) :
            /\ output' = w.rows
            /\ pc' = IF w.panicked THEN "panicked" ELSE "done"
    /\ UNCHANGED <<mock_db, nrecords, last, overflow_checks>>

Next ==
    \/ \E tx \in TransactionInput : ProcessRecord(tx, MaxRecords)
    \/ RecordError
    \/ RecordPanic
    \/ WriteOutput

Spec == Init /\ [][Next]_vars

\* ---------------------------------------------- one account, in depth
\* a single account fed up to MaxDepth records, all carrying its client id
NextAccount == \E tx \in AccountInput : ProcessRecord(tx, MaxDepth)

SpecAccount == Init /\ [][NextAccount]_vars

\* a single account fed up to MaxWideRecords records over more ids, enough
\* entries for the sums of available() to leave the i32 range
NextWide == \E tx \in WideInput : ProcessRecord(tx, MaxWideRecords)

SpecWide == Init /\ [][NextWide]_vars

\* the same account run to the end of the input, where main writes the rows
NextWideRun == NextWide \/ WriteOutput

SpecWideRun == Init /\ [][NextWideRun]_vars

\* a single account fed only Deposit and Withdrawal records of amounts >= 0
MoneyInput ==
    {tx \in AccountInput :
        tx.kind \in {"Deposit", "Withdrawal"} /\ tx.amount >= 0}

NextMoney == \E tx \in MoneyInput : ProcessRecord(tx, MaxMoneyRecords)

SpecMoney == Init /\ [][NextMoney]_vars

\* ------------------------------------------- two accounts, interleaved
\* the records two clients are fed, with a small amount and the largest one
PairClients == {1, 2}

PairInput ==
    {tx \in TransactionInputs(1..MaxPairTx, PairClients) :
        tx.kind \in {"Deposit", "Withdrawal"} => tx.amount \in {1, I32_MAX}}

\* one iteration of the loop of main on a record that decodes to tx, in an
\* input of at most MaxPairRecords records; the record is not remembered
PairRecord(tx) ==
    /\ pc = "loop"
    /\ nrecords < MaxPairRecords
    /\ \E o \in ApplyRecord(mock_db, tx, overflow_checks) :
            /\ mock_db' = o.db
            /\ pc' = IF o.panicked THEN "panicked" ELSE "loop"
    /\ nrecords' = nrecords + 1
    /\ UNCHANGED <<last, overflow_checks, output>>

NextPair == \E tx \in PairInput : PairRecord(tx)

SpecPair == Init /\ [][NextPair]_vars

\* the reader of main, which takes every record to have as many fields as
\* the first one of the file, the header line included: a record of fewer
\* than 4 fields is an error unless it is the first of a file without
\* header line
ReaderRejects(value, has_headers) ==
    /\ value.amount.form = "absent"
    /\ has_headers \/ nrecords > 0

\* one iteration of the loop of main on the record `value` of a file with
\* or without header line: the reader yields it, it is decoded, then
\* applied; a record the reader rejects or that does not decode ends the run
ReadRecord(value, has_headers) ==
    /\ pc = "loop"
    /\ nrecords < MaxDecodeRecords
    /\ IF ReaderRejects(value, has_headers)
       THEN /\ pc' = "error"
            /\ UNCHANGED <<mock_db, nrecords, last, overflow_checks, output>>
       ELSE LET d == TryFromStringRecord(value)
            IN IF d.result = "Ok"
               THEN ProcessRecord(d.tx, MaxDecodeRecords)
               ELSE /\ pc' = IF d.result = "Err" THEN "error" ELSE "panicked"
                    /\ UNCHANGED <<mock_db, nrecords, last, overflow_checks,
                                   output>>

NextDecode ==
    \E value \in StringRecords, has_headers \in BOOLEAN :
        ReadRecord(value, has_headers)

SpecDecode == Init /\ [][NextDecode]_vars

TypeOK ==
    /\ pc \in {"loop", "done", "error", "panicked"}
    /\ nrecords \in 0..(MaxRecords + MaxDepth + MaxWideRecords)
    /\ last.kind \in {"None", "Deposit", "Withdrawal", "Dispute", "Resolve",
                      "Chargeback"}
    /\ last.amount \in I32_MIN..I32_MAX
    /\ overflow_checks \in BOOLEAN
    /\ DOMAIN mock_db \subseteq Clients
    /\ \A c \in DOMAIN mock_db :
        /\ mock_db[c].id = c
        /\ mock_db[c].locked \in BOOLEAN
        /\ DOMAIN mock_db[c].transactions \subseteq Nat
        /\ \A k \in DOMAIN mock_db[c].transactions :
            LET e == mock_db[c].transactions[k]
            IN /\ e.id = k
               /\ e.client_id = c
               /\ e.side \in TransactionSide
               /\ e.status \in TransactionStatus
               /\ e.amount \in I32_MIN..I32_MAX

\* ================================================================ claims
\* a step that is one call of process_tx_input, on the record last'
Call == nrecords' = nrecords + 1

\* the account the call is made on, as it is before the call (a client
\* seen for the first time gets a fresh account), and as it is after
CalledUser == OrInsert(mock_db, last'.client_id)[last'.client_id]

ResultUser == mock_db'[last'.client_id]

\* what a balance function F can give on `user` in this build, over the
\* iteration orders of its entry map
Outcomes(F(_, _, _), user) ==
    {F(user, order, overflow_checks) :
        order \in Orders(DOMAIN user.transactions)}

\* the values F can return on `user`: none when every order panics
Values(F(_, _, _), user) ==
    {o.value : o \in {r \in Outcomes(F, user) : ~r.panicked}}

\* F returns on `user` in every order, and what it returns
Returns(F(_, _, _), user) == \A o \in Outcomes(F, user) : ~o.panicked

ValueOf(F(_, _, _), user) == CHOOSE v \in Values(F, user) : TRUE

\* available(), held() and total() of an account, as one iteration of the
\* unchanged map in `order` gives them: total() is the sum of the other two
BalancesIn(user, order) ==
    LET a == AvailableIn(user.transactions, order)
        h == HeldIn(user.transactions, order)
    IN <<Returned(a, overflow_checks), Returned(h, overflow_checks),
         Returned(TotalOf(a, h), overflow_checks)>>

Balances(user) ==
    {BalancesIn(user, order) : order \in Orders(DOMAIN user.transactions)}

\* the account the record `last` was applied to, as it is now
LastUser == mock_db[last.client_id]

\* C1: once an account is locked, applying any record leaves its entry map,
\* every status, the lock flag and available(), held(), total() unchanged.
C1_LockedIsFrozen ==
    [][(Call /\ CalledUser.locked)
        => /\ ResultUser = CalledUser
           /\ Balances(ResultUser) = Balances(CalledUser)]_vars

\* a Deposit with an unused id was applied to a locked account
C1_Witness ==
    /\ last.kind = "Deposit"
    /\ LastUser.locked
    /\ last.id \notin DOMAIN LastUser.transactions

\* C2: available() >= 0 for every account after every sequence of calls,
\* whatever the iteration order of the entry map: every value it returns is
\* >= 0.
C2_AvailableNonNegative ==
    \A c \in DOMAIN mock_db :
        \A order \in Orders(DOMAIN mock_db[c].transactions) :
            LET a == available(mock_db[c], order, overflow_checks)
            IN ~a.panicked => a.value >= 0

\* an account whose fold is negative, so that the floor decides the value
C2_Witness ==
    \E c \in DOMAIN mock_db :
        /\ \E v \in Values(Unfloored, mock_db[c]) : v < 0
        /\ Values(available, mock_db[c]) = {0}

\* C3: on an unlocked account a Withdrawal with an unused id and an amount
\* strictly greater than available() inserts nothing and leaves the entry
\* map, the lock flag, available() and held() unchanged.
C3_OverdrawIsNoOp ==
    [][(/\ Call
        /\ last'.kind = "Withdrawal"
        /\ ~CalledUser.locked
        /\ last'.id \notin DOMAIN CalledUser.transactions
        /\ \E v \in Values(available, CalledUser) : last'.amount > v)
        => /\ ResultUser = CalledUser
           /\ last'.id \notin DOMAIN ResultUser.transactions
           /\ Balances(ResultUser) = Balances(CalledUser)]_vars

\* a Withdrawal above the funds was applied to an unlocked account holding
\* funds, and was not inserted
C3_Witness ==
    /\ last.kind = "Withdrawal"
    /\ pc = "loop"
    /\ ~LastUser.locked
    /\ last.id \notin DOMAIN LastUser.transactions
    /\ \E v \in Values(available, LastUser) : v > 0 /\ last.amount > v

\* C4: a Deposit or Withdrawal whose id is already in the entry map is a
\* no-op: the existing entry is kept and the account (entries, lock flag,
\* and so the balances derived from them) is unchanged.
C4_DuplicateIdIsNoOp ==
    [][(/\ Call
        /\ last'.kind \in {"Deposit", "Withdrawal"}
        /\ last'.id \in DOMAIN CalledUser.transactions)
        => ResultUser = CalledUser]_vars

\* a Deposit or Withdrawal reused the id of an entry of another amount that
\* has left the Normal status
C4_Witness ==
    /\ last.kind \in {"Deposit", "Withdrawal"}
    /\ last.id \in DOMAIN LastUser.transactions
    /\ LastUser.transactions[last.id].status = "Solved(false)"
    /\ LastUser.transactions[last.id].amount # last.amount

\* C5: a Dispute changes the account only by turning an existing
\* Deposit-side Normal entry into Disputed; a Dispute that names a
\* Withdrawal-side entry changes nothing.
C5_DisputeOnlyNormalDeposits ==
    [][(Call /\ last'.kind = "Dispute")
        => LET txs == CalledUser.transactions
               id == last'.id
           IN /\ (ResultUser # CalledUser)
                    => /\ id \in DOMAIN txs
                       /\ txs[id].side = "Deposit"
                       /\ txs[id].status = "Normal"
                       /\ ResultUser = [CalledUser EXCEPT
                            !.transactions[id].status = "Disputed"]
              /\ (id \in DOMAIN txs /\ txs[id].side = "Withdrawal")
                    => ResultUser = CalledUser]_vars

\* a Dispute was applied to a Withdrawal-side entry of an unlocked account
C5_Witness ==
    /\ last.kind = "Dispute"
    /\ ~LastUser.locked
    /\ last.id \in DOMAIN LastUser.transactions
    /\ LastUser.transactions[last.id].side = "Withdrawal"

\* the steps of the life cycle of an entry
Forward(old, new) ==
    \/ new = old
    \/ old = "Normal" /\ new = "Disputed"
    \/ old = "Disputed" /\ new \in {"Solved(false)", "Solved(true)"}

\* C6: an entry starts Normal and its status only moves along
\* Normal -> Disputed -> Solved(_); a Solved entry never changes again.
C6_StatusMovesForward ==
    [][\A c \in DOMAIN mock_db' :
        \A id \in DOMAIN mock_db'[c].transactions :
            IF c \in DOMAIN mock_db /\ id \in DOMAIN mock_db[c].transactions
            THEN Forward(mock_db[c].transactions[id].status,
                         mock_db'[c].transactions[id].status)
            ELSE mock_db'[c].transactions[id].status = "Normal"]_vars

\* a Dispute or Chargeback was applied to an entry that a Resolve had
\* already left Solved(false), in an unlocked account
C6_Witness ==
    /\ last.kind \in {"Dispute", "Chargeback"}
    /\ ~LastUser.locked
    /\ last.id \in DOMAIN LastUser.transactions
    /\ LastUser.transactions[last.id].status = "Solved(false)"

\* C7: an account is created unlocked, and a locked account stays locked.
C7_LockedIsMonotonic ==
    [][\A c \in DOMAIN mock_db' :
        IF c \in DOMAIN mock_db
        THEN mock_db[c].locked => mock_db'[c].locked
        ELSE ~mock_db'[c].locked]_vars

\* a Resolve was applied to an account that a Chargeback had locked
C7_Witness ==
    /\ last.kind = "Resolve"
    /\ LastUser.locked
    /\ last.id \in DOMAIN LastUser.transactions
    /\ LastUser.transactions[last.id].status = "Solved(true)"

\* C8: applying the same Resolve or Chargeback record a second time right
\* after the first leaves the account (entries, statuses, lock flag, and so
\* the balances derived from them) as the first application left it.
C8_ResolveChargebackIdempotent ==
    \A c \in DOMAIN mock_db :
        \A kind \in {"Resolve", "Chargeback"}, id \in AccountTxIds :
            LET tx == [kind |-> kind, id |-> id, client_id |-> c, amount |-> 0]
            IN \A r1 \in ProcessOutcomes(mock_db[c], tx, overflow_checks) :
               \A r2 \in ProcessOutcomes(r1.user, tx, overflow_checks) :
                    /\ ~r1.panicked /\ ~r2.panicked
                    /\ r2.user = r1.user

\* an unlocked account with a Disputed entry and a Normal one, on which a
\* Resolve or a Chargeback takes effect
C8_Witness ==
    /\ pc = "loop"
    /\ \E c \in DOMAIN mock_db :
        /\ ~mock_db[c].locked
        /\ \E i, j \in DOMAIN mock_db[c].transactions :
            /\ mock_db[c].transactions[i].status = "Disputed"
            /\ mock_db[c].transactions[j].status = "Normal"

\* a Dispute, Resolve or Chargeback that the transition table ignores: its
\* id is not in the map, or (Resolve, Chargeback) its entry is not Disputed
Inapplicable(user, tx) ==
    /\ tx.kind \in {"Dispute", "Resolve", "Chargeback"}
    /\ \/ tx.id \notin DOMAIN user.transactions
       \/ /\ tx.kind \in {"Resolve", "Chargeback"}
          /\ user.transactions[tx.id].status # "Disputed"

\* C9: process_tx_input returns Ok for every record in every reachable
\* account state, and a Dispute, Resolve or Chargeback whose id is absent, or
\* a Resolve or Chargeback whose entry is not Disputed, changes nothing and
\* creates no entry.
C9_AlwaysOkAndSilent ==
    [][Call
        => /\ pc' = "loop"
           /\ Inapplicable(CalledUser, last')
                => /\ ResultUser = CalledUser
                   /\ Balances(ResultUser) = Balances(CalledUser)]_vars

\* C10: a record carrying client id c neither creates nor changes the
\* account of any other client; a Dispute, Resolve or Chargeback of c naming
\* an id held only in another client's map changes no existing account and
\* leaves c with the account it had, or a fresh empty one.
C10_OtherClientsUntouched ==
    [][Call
        => /\ \A c \in (DOMAIN mock_db \cup DOMAIN mock_db')
                        \ {last'.client_id} :
                /\ c \in DOMAIN mock_db
                /\ c \in DOMAIN mock_db'
                /\ mock_db'[c] = mock_db[c]
           /\ (/\ last'.kind \in {"Dispute", "Resolve", "Chargeback"}
               /\ last'.id \notin DOMAIN CalledUser.transactions
               /\ \E c \in DOMAIN mock_db :
                    last'.id \in DOMAIN mock_db[c].transactions)
                => /\ mock_db' = OrInsert(mock_db, last'.client_id)
                   /\ last'.client_id \notin DOMAIN mock_db
                        => ResultUser = NewUser(last'.client_id)]_vars

\* a Dispute of one client named an id that only another client holds, as a
\* Normal deposit that a Dispute of its owner would put on hold
C10_Witness ==
    /\ last.kind = "Dispute"
    /\ last.client_id \in DOMAIN mock_db
    /\ last.id \notin DOMAIN LastUser.transactions
    /\ \E c \in DOMAIN mock_db :
        /\ c # last.client_id
        /\ last.id \in DOMAIN mock_db[c].transactions
        /\ mock_db[c].transactions[last.id].side = "Deposit"
        /\ mock_db[c].transactions[last.id].status = "Normal"

\* the registry `db` without the accounts of the clients other than c
Only(db, c) == [k \in DOMAIN db \cap {c} |-> db[k]]

\* the registry `db` with the accounts of `own` put in place of its own
Merge(db, own) ==
    [k \in DOMAIN db \cup DOMAIN own |->
        IF k \in DOMAIN own THEN own[k] ELSE db[k]]

\* C11: the state of every account depends only on the records that carry
\* its client id, in their order: after any input prefix, the next record
\* does to the registry exactly what it does to a registry that holds only
\* the account of the record's client (the same account, or the same panic),
\* and it leaves every other account as it was. Hence the records of other
\* clients interleaved before or after it change nothing for that account,
\* and two inputs with the same per-client subsequences leave the same
\* accounts, entries and lock flags.
C11_AccountsIndependent ==
    pc = "loop"
        => \A tx \in PairInput :
            ApplyRecord(mock_db, tx, overflow_checks)
                = {[db |-> Merge(mock_db, o.db), panicked |-> o.panicked] :
                    o \in ApplyRecord(Only(mock_db, tx.client_id), tx,
                                      overflow_checks)}

\* after the records of two clients were interleaved, both accounts hold
\* entries, one of them two, and the next Withdrawal on that one makes
\* available() leave the i32 range
C11_Witness ==
    /\ pc = "loop"
    /\ DOMAIN mock_db = PairClients
    /\ \A c \in PairClients : mock_db[c].transactions # EmptyMap
    /\ \E c \in PairClients :
            Cardinality(DOMAIN mock_db[c].transactions) = 2
    /\ \E tx \in PairInput :
            \E o \in ApplyRecord(mock_db, tx, overflow_checks) : o.panicked

\* C12: rows are written only once every input record has been applied, and
\* then there is exactly one row per client id seen in the input, also for a
\* client whose records were all ignored (zero balances, locked = false).
C12_OneRowPerClient ==
    /\ pc = "loop" => output = <<>>
    /\ pc \in {"done", "panicked"}
        => /\ Len(output) = Cardinality(DOMAIN mock_db)
           /\ {output[i].client : i \in 1..Len(output)} = DOMAIN mock_db
           /\ \A i \in 1..Len(output) :
                mock_db[output[i].client].transactions = EmptyMap
                    => output[i] = [client |-> output[i].client,
                                    available |-> 0, held |-> 0, total |-> 0,
                                    locked |-> FALSE]

\* a step that applies a Dispute to a Deposit-side Normal entry of an
\* unlocked account
EffectiveDispute ==
    /\ Call
    /\ last'.kind = "Dispute"
    /\ ~CalledUser.locked
    /\ last'.id \in DOMAIN CalledUser.transactions
    /\ CalledUser.transactions[last'.id].side = "Deposit"
    /\ CalledUser.transactions[last'.id].status = "Normal"

\* new = old + a as integers
GreaterBy(new, old, a) == ~AddOverflows(old, a) /\ new = old + a

\* every entry of the account carries a non-negative amount
NonNegativeEntries(user) ==
    \A id \in DOMAIN user.transactions : user.transactions[id].amount >= 0

\* no sum of available(), held() or total() leaves the i32 range, in any
\* iteration order of the entry map
SumsInRange(user) ==
    \A order \in Orders(DOMAIN user.transactions) :
        ~TotalIn(user.transactions, order).overflowed

\* C13: an effective Dispute on a Deposit-side Normal entry of amount a
\* leaves held() greater by exactly a and total() unchanged, in every
\* reachable state, also after withdrawals admitted against that deposit
\* (stated here for accounts whose entries all carry amounts >= 0 and whose
\* sums stay inside the i32 range before and after the Dispute).
C13_DisputeKeepsTotal ==
    [][(/\ EffectiveDispute
        /\ NonNegativeEntries(CalledUser)
        /\ SumsInRange(CalledUser)
        /\ SumsInRange(ResultUser))
        => /\ GreaterBy(ValueOf(held, ResultUser), ValueOf(held, CalledUser),
                        CalledUser.transactions[last'.id].amount)
           /\ ValueOf(total, ResultUser) = ValueOf(total, CalledUser)]_vars

\* C13, amended: an effective Dispute adds a to held() as an i32 sum; while
\* the floor of available() is inactive (the unfloored fold is >= 0 before
\* the Dispute and after it) available() drops by a and total() is
\* unchanged. Stated of the values the calls return before and after.
C13_DisputeHoldsFunds ==
    [][EffectiveDispute
        => LET a == CalledUser.transactions[last'.id].amount
           IN /\ \A old \in Values(held, CalledUser) :
                 \A new \in Values(held, ResultUser) :
                    new = WrappingAdd(old, a)
              /\ (/\ \E v \in Values(Unfloored, CalledUser) : v >= 0
                  /\ \E v \in Values(Unfloored, ResultUser) : v >= 0)
                    => /\ \A old \in Values(available, CalledUser) :
                          \A new \in Values(available, ResultUser) :
                            new = old - a
                       /\ \A old \in Values(total, CalledUser) :
                          \A new \in Values(total, ResultUser) :
                            new = old]_vars

\* a Dispute took effect on a deposit of a positive amount while another
\* deposit keeps the fold of available() above 0
C13_Witness ==
    /\ last.kind = "Dispute"
    /\ nrecords = 3
    /\ Cardinality(DOMAIN LastUser.transactions) = 2
    /\ LastUser.transactions[last.id].status = "Disputed"
    /\ LastUser.transactions[last.id].amount > 0
    /\ \E v \in Values(Unfloored, LastUser) : v > 0
    /\ Values(held, LastUser) = {LastUser.transactions[last.id].amount}

\* C14: on an unlocked account a Withdrawal with an unused id and an amount
\* a >= 0 is admitted exactly when available() >= a (equality admitted);
\* when admitted, available() afterwards is the previous value minus a and
\* held() is unchanged.
C14_WithdrawalIffFunds ==
    [][(/\ Call
        /\ last'.kind = "Withdrawal"
        /\ ~CalledUser.locked
        /\ last'.id \notin DOMAIN CalledUser.transactions
        /\ last'.amount >= 0)
        => LET admitted == last'.id \in DOMAIN ResultUser.transactions
           IN /\ Returns(available, CalledUser)
              /\ admitted <=> ValueOf(available, CalledUser) >= last'.amount
              /\ admitted
                    => /\ Outcomes(available, ResultUser)
                            = {[panicked |-> FALSE,
                                value |-> ValueOf(available, CalledUser)
                                            - last'.amount]}
                       /\ Outcomes(held, ResultUser)
                            = Outcomes(held, CalledUser)]_vars

\* C15: every Deposit or Withdrawal record that decoding delivers carries a
\* tick amount >= 0, for every finite decimal text the decoder accepts.
C15_DecodedAmountNonNegative ==
    last.kind \in {"Deposit", "Withdrawal"} => last.amount >= 0

\* a step that applies a Chargeback to a Disputed entry of an unlocked
\* account
EffectiveChargeback ==
    /\ Call
    /\ last'.kind = "Chargeback"
    /\ ~CalledUser.locked
    /\ last'.id \in DOMAIN CalledUser.transactions
    /\ CalledUser.transactions[last'.id].status = "Disputed"

\* C16: an effective Chargeback on a Disputed entry of amount a sets that
\* entry to Solved(true) and locked to true, lowers held() by exactly a,
\* leaves available() unchanged, so total() is lower by a; every other
\* entry, also one still Disputed, is unchanged.
C16_ChargebackRemovesHeld ==
    [][EffectiveChargeback
        => LET a == CalledUser.transactions[last'.id].amount
           IN /\ ResultUser = [CalledUser EXCEPT
                    !.transactions[last'.id].status = "Solved(true)",
                    !.locked = TRUE]
              /\ Returns(held, CalledUser) /\ Returns(held, ResultUser)
              /\ GreaterBy(ValueOf(held, CalledUser),
                           ValueOf(held, ResultUser), a)
              /\ Outcomes(available, ResultUser)
                    = Outcomes(available, CalledUser)
              /\ Returns(total, CalledUser) /\ Returns(total, ResultUser)
              /\ GreaterBy(ValueOf(total, CalledUser),
                           ValueOf(total, ResultUser), a)]_vars

\* C17: on an unlocked account, a Dispute immediately followed by a Resolve
\* on the same Deposit-side Normal entry takes effect twice and returns
\* available(), held() and total() to what they gave before the Dispute, in
\* every iteration order; only the status of the entry differs, now
\* Solved(false).
C17_DisputeResolveRestores ==
    [][EffectiveDispute
        => LET id == last'.id
               resolve == [kind |-> "Resolve", id |-> id,
                           client_id |-> last'.client_id, amount |-> 0]
           IN /\ pc' = "loop"
              /\ ResultUser.transactions[id].status = "Disputed"
              /\ \A r2 \in ProcessOutcomes(ResultUser, resolve,
                                            overflow_checks) :
                    /\ ~r2.panicked
                    /\ r2.user = [CalledUser EXCEPT
                            !.transactions[id].status = "Solved(false)"]
                    /\ Balances(r2.user) = Balances(CalledUser)]_vars

\* a Dispute and then a Resolve have just been applied to the only entry of
\* an account, a deposit of a positive amount
C17_Witness ==
    /\ last.kind = "Resolve"
    /\ nrecords = 3
    /\ DOMAIN LastUser.transactions = {last.id}
    /\ LastUser.transactions[last.id].side = "Deposit"
    /\ LastUser.transactions[last.id].status = "Solved(false)"
    /\ LastUser.transactions[last.id].amount > 0
    /\ Values(available, LastUser) = {LastUser.transactions[last.id].amount}
    /\ Values(held, LastUser) = {0}

\* C18: after every step of a sequence of Deposit and Withdrawal records of
\* amounts >= 0, the unfloored sum of available() (admitted deposits minus
\* admitted withdrawals) is >= 0, so the floor at 0 never alters the value.
C18_FloorIdleOnMoneyOnly ==
    \A c \in DOMAIN mock_db :
        \A order \in Orders(DOMAIN mock_db[c].transactions) :
            LET sum == Unfloored(mock_db[c], order, overflow_checks)
            IN /\ ~sum.panicked
               /\ sum.value >= 0
               /\ available(mock_db[c], order, overflow_checks) = sum

\* C19: storing ticks in an i32 is safe: whatever records were admitted,
\* each with an amount that fits an i32, every intermediate and final sum
\* of available(), held() and total() stays inside the i32 range.
C19_SumsFitI32 ==
    \A c \in DOMAIN mock_db :
        \A order \in Orders(DOMAIN mock_db[c].transactions) :
            LET txs == mock_db[c].transactions
            IN /\ ~AvailableIn(txs, order).overflowed
               /\ ~HeldIn(txs, order).overflowed
               /\ ~TotalIn(txs, order).overflowed

\* the lock flag tells whether an entry was charged back, and at most one
\* entry was
LockMatchesChargeback(user) ==
    LET txs == user.transactions
        charged == {id \in DOMAIN txs : txs[id].status = "Solved(true)"}
    IN /\ user.locked <=> charged # {}
       /\ Cardinality(charged) <= 1

\* C20: an account is locked exactly when one of its entries has status
\* Solved(true), and at most one entry of an account ever has that status:
\* this holds of every reachable account and still holds after any two
\* further Chargeback records on its entries.
C20_LockedIffChargedBack ==
    \A c \in DOMAIN mock_db :
        /\ LockMatchesChargeback(mock_db[c])
        /\ \A id1, id2 \in DOMAIN mock_db[c].transactions :
            LET record(id) == [kind |-> "Chargeback", id |-> id,
                               client_id |-> c, amount |-> 0]
            IN \A r1 \in ProcessOutcomes(mock_db[c], record(id1),
                                          overflow_checks) :
               \A r2 \in ProcessOutcomes(r1.user, record(id2),
                                          overflow_checks) :
                    /\ LockMatchesChargeback(r1.user)
                    /\ LockMatchesChargeback(r2.user)

\* an unlocked account with two Disputed entries, each open to a Chargeback
C20_Witness ==
    /\ last.kind = "Dispute"
    /\ pc = "loop"
    /\ ~LastUser.locked
    /\ Cardinality({id \in DOMAIN LastUser.transactions :
            LastUser.transactions[id].status = "Disputed"}) = 2

====
